---- MODULE Spec2Model ----
(***************************************************************************)
(* Model of scripts/translate.py: a command-line script that reads two     *)
(* positional arguments, asks a translation client for a translation and   *)
(* writes the text of the result.                                          *)
(*                                                                         *)
(*   4  text = sys.argv[1]                                                 *)
(*   5  lang = sys.argv[2]                                                 *)
(*   6  translator = Translator()                                          *)
(*   7  print(translator.translate(text, dest=lang).text)                  *)
(*                                                                         *)
(* Every run of the script is an independent process.  The model holds the *)
(* state of each process of Runs side by side, so that properties relating *)
(* two runs can be stated.  Strings are sequences of characters.           *)
(***************************************************************************)
EXTENDS Integers, Sequences, FiniteSets

\* Largest number of positional arguments given on a command line.
MaxArgs == 3

\* The processes observed side by side.
Runs == {1, 2}

\* sys.argv[0], the name of the script.
ScriptName == <<"t", "r", ".", "p", "y">>

\* The strings a caller may give as a positional argument.
ArgStrings == { <<>>, <<"e", "s">> }

\* The texts the translation service may answer with.
Translations == { <<>>, <<"h", "o", "l", "a">>, <<" ", "a", "\n">> }

\* The errors translator.translate may raise.
BackendErrors == { "ConnectError", "ValueError" }

\* A name of the module namespace is unbound, or bound to a value.
Unbound == <<>>
Bound(v) == <<v>>

RECURSIVE SeqsOfLen(_, _)
SeqsOfLen(S, n) ==
    IF n = 0 THEN { <<>> }
    ELSE { Append(s, x) : s \in SeqsOfLen(S, n - 1), x \in S }

\* The command lines: the script name followed by 0..MaxArgs arguments.
CommandLines ==
    UNION { { <<ScriptName>> \o a : a \in SeqsOfLen(ArgStrings, n) } : n \in 0..MaxArgs }

VARIABLES
    argv,        \* argv[r]: sys.argv of run r (argv[r][1] is Python's sys.argv[0])
    pc,          \* pc[r]: the statement run r is at
    text,        \* text[r]: the module variable text
    lang,        \* lang[r]: the module variable lang
    translator,  \* translator[r]: TRUE once Translator() has been constructed
    calls,       \* calls[r]: the requests handed to translator.translate
    response,    \* response[r]: what translator.translate answered
    stdout,      \* stdout[r]: the characters written to standard output
    writes,      \* writes[r]: the number of print calls that wrote to stdout
    stderr,      \* stderr[r]: the uncaught exception reported on standard error
    exitStatus   \* exitStatus[r]: the exit status of the process, once ended

vars == <<argv, pc, text, lang, translator, calls, response, stdout, writes,
          stderr, exitStatus>>

NoResponse == [kind |-> "none", text |-> <<>>, exc |-> ""]
Returned(t) == [kind |-> "ok", text |-> t, exc |-> ""]
Raised(e) == [kind |-> "raise", text |-> <<>>, exc |-> e]

\* Python's list indexing for a non-negative index: a[i] exists iff i < len(a).
HasIndex(a, i) == i < Len(a)
Index(a, i) == a[i + 1]

\* print(s, end=""): the string alone.
LineOfBare(s) == s

\* print(s): the string followed by the default end, a newline.
LineOf(s) == s \o <<"\n">>

\* The arguments of translator.translate(text, dest=lang).
Request(r) == [text |-> text[r][1], dest |-> lang[r][1]]

Init ==
    /\ argv \in [Runs -> CommandLines]
    /\ pc = [r \in Runs |-> "l4"]
    /\ text = [r \in Runs |-> Unbound]
    /\ lang = [r \in Runs |-> Unbound]
    /\ translator = [r \in Runs |-> FALSE]
    /\ calls = [r \in Runs |-> <<>>]
    /\ response = [r \in Runs |-> NoResponse]
    /\ stdout = [r \in Runs |-> <<>>]
    /\ writes = [r \in Runs |-> 0]
    /\ stderr = [r \in Runs |-> ""]
    /\ exitStatus = [r \in Runs |-> Unbound]

\* An exception nothing catches: the interpreter reports it on standard
\* error and the process ends with status 1.
Uncaught(r, e) ==
    /\ pc' = [pc EXCEPT ![r] = "failed"]
    /\ stderr' = [stderr EXCEPT ![r] = e]
    /\ exitStatus' = [exitStatus EXCEPT ![r] = Bound(1)]

\* Line 4: text = sys.argv[1]
ReadText(r) ==
    /\ pc[r] = "l4"
    /\ IF HasIndex(argv[r], 1)
       THEN /\ text' = [text EXCEPT ![r] = Bound(Index(argv[r], 1))]
            /\ pc' = [pc EXCEPT ![r] = "l5"]
            /\ UNCHANGED <<stderr, exitStatus>>
       ELSE /\ Uncaught(r, "IndexError")
            /\ UNCHANGED text
    /\ UNCHANGED <<argv, lang, translator, calls, response, stdout, writes>>

\* lang = sys.argv[2] if len(sys.argv) > 2 else "en"
ReadLangDefault(r) ==
    /\ pc[r] = "l5"
    /\ lang' = [lang EXCEPT ![r] =
                   Bound(IF HasIndex(argv[r], 2) THEN Index(argv[r], 2)
                                                 ELSE <<"e", "n">>)]
    /\ pc' = [pc EXCEPT ![r] = "l6"]
    /\ UNCHANGED <<argv, text, translator, calls, response, stdout, writes,
                   stderr, exitStatus>>

\* lang = sys.argv[-1]
ReadLangLast(r) ==
    /\ pc[r] = "l5"
    /\ IF HasIndex(argv[r], 2)
       THEN /\ lang' = [lang EXCEPT ![r] = Bound(argv[r][Len(argv[r])])]
            /\ pc' = [pc EXCEPT ![r] = "l6"]
            /\ UNCHANGED <<stderr, exitStatus>>
       ELSE /\ Uncaught(r, "IndexError")
            /\ UNCHANGED lang
    /\ UNCHANGED <<argv, text, translator, calls, response, stdout, writes>>

\* Line 5: lang = sys.argv[2]
ReadLang(r) ==
    /\ pc[r] = "l5"
    /\ IF HasIndex(argv[r], 2)
       THEN /\ lang' = [lang EXCEPT ![r] = Bound(Index(argv[r], 2))]
            /\ pc' = [pc EXCEPT ![r] = "l6"]
            /\ UNCHANGED <<stderr, exitStatus>>
       ELSE /\ Uncaught(r, "IndexError")
            /\ UNCHANGED lang
    /\ UNCHANGED <<argv, text, translator, calls, response, stdout, writes>>

\* Line 6: translator = Translator()
Construct(r) ==
    /\ pc[r] = "l6"
    /\ translator' = [translator EXCEPT ![r] = TRUE]
    /\ pc' = [pc EXCEPT ![r] = "l7"]
    /\ UNCHANGED <<argv, text, lang, calls, response, stdout, writes, stderr,
                   exitStatus>>

\* The call made twice, as in a detect followed by a translate.
TranslateTwice(r) ==
    /\ pc[r] = "l7"
    /\ calls' = [calls EXCEPT ![r] = Append(Append(@, Request(r)), Request(r))]
    /\ pc' = [pc EXCEPT ![r] = "l7_wait"]
    /\ UNCHANGED <<argv, text, lang, translator, response, stdout, writes,
                   stderr, exitStatus>>

\* The call guarded by a local check that rejects an empty text.
TranslateValidated(r) ==
    /\ pc[r] = "l7"
    /\ IF text[r][1] = <<>>
       THEN /\ Uncaught(r, "ValueError")
            /\ UNCHANGED calls
       ELSE /\ calls' = [calls EXCEPT ![r] = Append(@, Request(r))]
            /\ pc' = [pc EXCEPT ![r] = "l7_wait"]
            /\ UNCHANGED <<stderr, exitStatus>>
    /\ UNCHANGED <<argv, text, lang, translator, response, stdout, writes>>

\* Line 7, the call translator.translate(text, dest=lang): the process
\* blocks until the client returns or raises.
Translate(r) ==
    /\ pc[r] = "l7"
    /\ calls' = [calls EXCEPT ![r] = Append(@, Request(r))]
    /\ pc' = [pc EXCEPT ![r] = "l7_wait"]
    /\ UNCHANGED <<argv, text, lang, translator, response, stdout, writes,
                   stderr, exitStatus>>

\* The client returns a result whose .text is t.
BackendReturn(r, t) ==
    /\ pc[r] = "l7_wait"
    /\ response' = [response EXCEPT ![r] = Returned(t)]
    /\ pc' = [pc EXCEPT ![r] = "l7_print"]
    /\ UNCHANGED <<argv, text, lang, translator, calls, stdout, writes, stderr,
                   exitStatus>>

\* The call wrapped in a handler that retries it once.
BackendRaiseRetry(r, e) ==
    /\ pc[r] = "l7_wait"
    /\ response' = [response EXCEPT ![r] = Raised(e)]
    /\ IF Len(calls[r]) < 2
       THEN /\ pc' = [pc EXCEPT ![r] = "l7"]
            /\ UNCHANGED <<stderr, exitStatus>>
       ELSE Uncaught(r, e)
    /\ UNCHANGED <<argv, text, lang, translator, calls, stdout, writes>>

\* The call wrapped in "try: ... except Exception: pass".
BackendRaiseSwallowed(r, e) ==
    /\ pc[r] = "l7_wait"
    /\ response' = [response EXCEPT ![r] = Raised(e)]
    /\ pc' = [pc EXCEPT ![r] = "end"]
    /\ UNCHANGED <<argv, text, lang, translator, calls, stdout, writes, stderr,
                   exitStatus>>

\* The call wrapped in a handler that prints a message and re-raises.
BackendRaiseReported(r, e) ==
    /\ pc[r] = "l7_wait"
    /\ response' = [response EXCEPT ![r] = Raised(e)]
    /\ stdout' = [stdout EXCEPT ![r] = @ \o <<"e", "r", "r", "\n">>]
    /\ writes' = [writes EXCEPT ![r] = @ + 1]
    /\ Uncaught(r, e)
    /\ UNCHANGED <<argv, text, lang, translator, calls>>

\* The client raises e; line 7 has no try, so the exception is uncaught.
BackendRaise(r, e) ==
    /\ pc[r] = "l7_wait"
    /\ response' = [response EXCEPT ![r] = Raised(e)]
    /\ Uncaught(r, e)
    /\ UNCHANGED <<argv, text, lang, translator, calls, stdout, writes>>

\* print(text, <result>.text)
WriteStdoutEcho(r) ==
    /\ pc[r] = "l7_print"
    /\ stdout' = [stdout EXCEPT ![r] =
                     @ \o text[r][1] \o <<" ">> \o response[r].text \o <<"\n">>]
    /\ writes' = [writes EXCEPT ![r] = @ + 1]
    /\ pc' = [pc EXCEPT ![r] = "end"]
    /\ UNCHANGED <<argv, text, lang, translator, calls, response, stderr,
                   exitStatus>>

\* Line 7, print(<result>.text)
WriteStdout(r) ==
    /\ pc[r] = "l7_print"
    /\ stdout' = [stdout EXCEPT ![r] = @ \o LineOf(response[r].text)]
    /\ writes' = [writes EXCEPT ![r] = @ + 1]
    /\ pc' = [pc EXCEPT ![r] = "end"]
    /\ UNCHANGED <<argv, text, lang, translator, calls, response, stderr,
                   exitStatus>>

\* The end of the script is reached: the process ends with status 0.
Exit(r) ==
    /\ pc[r] = "end"
    /\ exitStatus' = [exitStatus EXCEPT ![r] = Bound(0)]
    /\ pc' = [pc EXCEPT ![r] = "done"]
    /\ UNCHANGED <<argv, text, lang, translator, calls, response, stdout,
                   writes, stderr>>

Step(r) ==
    \/ ReadText(r)
    \/ ReadLang(r)
    \/ Construct(r)
    \/ Translate(r)
    \/ \E t \in Translations : BackendReturn(r, t)
    \/ \E e \in BackendErrors : BackendRaise(r, e)
    \/ WriteStdout(r)
    \/ Exit(r)

Next == \E r \in Runs : Step(r)

Spec == Init /\ [][Next]_vars

\* The interpreter always executes the next statement, and the client call
\* eventually returns or raises.
FairSpec == Spec /\ \A r \in Runs : WF_vars(Step(r))

Ended(r) == pc[r] \in {"done", "failed"}
ArgCount(r) == Len(argv[r]) - 1
Newline == <<"\n">>

TypeOK ==
    /\ argv \in [Runs -> CommandLines]
    /\ pc \in [Runs -> {"l4", "l5", "l6", "l7", "l7_wait", "l7_print", "end",
                        "done", "failed"}]
    /\ \A r \in Runs : Len(text[r]) <= 1 /\ Len(lang[r]) <= 1
    /\ translator \in [Runs -> BOOLEAN]
    /\ \A r \in Runs : response[r].kind \in {"none", "ok", "raise"}
    /\ writes \in [Runs -> Nat]

(***************************************************************************)
(* Properties                                                              *)
(***************************************************************************)

\* C1: for a non-empty text and a backend call that returned the text T,
\* standard output holds nothing before the print and exactly T followed by
\* one newline after it.
C1_OutputIsBackendText ==
    \A r \in Runs :
        (response[r].kind = "ok" /\ text[r] # Unbound /\ text[r][1] # <<>>) =>
            IF pc[r] \in {"end", "done"}
            THEN stdout[r] = response[r].text \o Newline
            ELSE stdout[r] = <<>>

C1_Witness ==
    \E r \in Runs :
        /\ pc[r] = "done"
        /\ text[r] = Bound(<<"e", "s">>)
        /\ response[r] = Returned(<<" ", "a", "\n">>)
        /\ stdout[r] = <<" ", "a", "\n", "\n">>

\* C2: a run given zero or one positional argument never hands a request to
\* the backend, never gets past line 5, and can only end with the non-zero
\* status of an uncaught IndexError.
C2_MissingArgument ==
    \A r \in Runs :
        ArgCount(r) <= 1 =>
            /\ calls[r] = <<>>
            /\ response[r] = NoResponse
            /\ pc[r] \in {"l4", "l5", "failed"}
            /\ Ended(r) => /\ exitStatus[r] # Unbound
                           /\ exitStatus[r][1] # 0
                           /\ stderr[r] = "IndexError"

C2_Witness ==
    \E r1, r2 \in Runs :
        /\ ArgCount(r1) = 0 /\ pc[r1] = "failed" /\ stderr[r1] = "IndexError"
        /\ ArgCount(r2) = 1 /\ pc[r2] = "failed" /\ stderr[r2] = "IndexError"
        /\ text[r2] # Unbound /\ calls[r2] = <<>>

\* C3: once the backend call has raised, the run is in the failed end state
\* with a non-zero status and the raised error reported, exactly one request
\* was ever made (no retry) and nothing was written (no local recovery).
C3_BackendErrorUncaught ==
    \A r \in Runs :
        response[r].kind = "raise" =>
            /\ pc[r] = "failed"
            /\ exitStatus[r] # Unbound /\ exitStatus[r][1] # 0
            /\ stderr[r] = response[r].exc
            /\ Len(calls[r]) = 1
            /\ stdout[r] = <<>>

C3_Witness ==
    \E r \in Runs :
        /\ response[r] = Raised("ValueError")
        /\ pc[r] = "failed"
        /\ exitStatus[r] = Bound(1)

\* C4: a process has an exit status exactly when it has ended, and the
\* status is 0 exactly when both arguments were present and the backend
\* call returned.
C4_ExitStatus ==
    \A r \in Runs :
        /\ Ended(r) <=> exitStatus[r] # Unbound
        /\ Ended(r) =>
              (exitStatus[r][1] = 0 <=>
                  (ArgCount(r) >= 2 /\ response[r].kind = "ok"))

C4_Witness ==
    \E r1, r2 \in Runs :
        /\ pc[r1] = "done" /\ exitStatus[r1] = Bound(0)
        /\ pc[r2] = "failed" /\ exitStatus[r2] = Bound(1)
        /\ response[r2].kind = "raise"

\* C5: a run makes at most one backend call and at most one write to
\* standard output, and a successful run has made exactly one of each.
C5_AtMostOnce ==
    \A r \in Runs :
        /\ Len(calls[r]) <= 1
        /\ writes[r] <= 1
        /\ pc[r] = "done" => Len(calls[r]) = 1 /\ writes[r] = 1

C5_Witness ==
    \E r \in Runs : pc[r] = "done" /\ Len(calls[r]) = 1 /\ writes[r] = 1

\* C6: with both arguments present the run never fails before the call, the
\* request carries sys.argv[1] and sys.argv[2] unchanged (the empty string
\* included), and the run ends in success exactly when the backend returned.
C6_NoLocalValidation ==
    \A r \in Runs :
        ArgCount(r) >= 2 =>
            /\ pc[r] \notin {"l4", "l5", "l6", "l7"} =>
                   calls[r] = << [text |-> argv[r][2], dest |-> argv[r][3]] >>
            /\ pc[r] = "failed" => response[r].kind = "raise"
            /\ pc[r] = "done" => response[r].kind = "ok"

C6_Witness ==
    \E r1, r2 \in Runs :
        /\ argv[r1] = <<ScriptName, <<>>, <<>>>>
        /\ calls[r1] = << [text |-> <<>>, dest |-> <<>>] >>
        /\ pc[r1] = "done"
        /\ argv[r2] = <<ScriptName, <<>>, <<>>>>
        /\ pc[r2] = "failed"

\* C7: two runs whose backend calls returned the same text have written the
\* same characters to standard output, whatever their arguments were.
C7_OutputDependsOnResponseOnly ==
    \A r1, r2 \in Runs :
        ( /\ pc[r1] \in {"end", "done"}
          /\ pc[r2] \in {"end", "done"}
          /\ response[r1].text = response[r2].text ) =>
            stdout[r1] = stdout[r2]

C7_Witness ==
    \E r1, r2 \in Runs :
        /\ pc[r1] = "done" /\ pc[r2] = "done"
        /\ text[r1] # text[r2] /\ lang[r1] # lang[r2]
        /\ ArgCount(r1) # ArgCount(r2)
        /\ response[r1].text = <<"h", "o", "l", "a">>
        /\ response[r2].text = <<"h", "o", "l", "a">>
        /\ stdout[r1] = stdout[r2]

\* The position of a statement in the script; both end states come last.
Rank(l) ==
    CASE l = "l4" -> 1
      [] l = "l5" -> 2
      [] l = "l6" -> 3
      [] l = "l7" -> 4
      [] l = "l7_wait" -> 5
      [] l = "l7_print" -> 6
      [] l = "end" -> 7
      [] l = "done" -> 8
      [] l = "failed" -> 8

Successor(l) ==
    CASE l = "l4" -> "l5"
      [] l = "l5" -> "l6"
      [] l = "l6" -> "l7"
      [] l = "l7" -> "l7_wait"
      [] l = "l7_wait" -> "l7_print"
      [] l = "l7_print" -> "end"
      [] l = "end" -> "done"
      [] OTHER -> l

\* C8: a run never makes the backend call before both arguments are read
\* and the client is constructed, never writes before the call has
\* returned, only ever moves to the next statement or to the failed end
\* state (no branch, no loop, end states are final), and eventually ends.
C8_LinearAndTerminates ==
    /\ [](\A r \in Runs :
            /\ calls[r] # <<>> =>
                   text[r] # Unbound /\ lang[r] # Unbound /\ translator[r]
            /\ writes[r] > 0 => response[r].kind = "ok")
    /\ [][\A r \in Runs :
            pc'[r] # pc[r] =>
                /\ Rank(pc'[r]) > Rank(pc[r])
                /\ pc'[r] \in {Successor(pc[r]), "failed"}]_vars
    /\ \A r \in Runs : <>[](Ended(r))

C8_Witness ==
    \E r1, r2 \in Runs :
        /\ pc[r1] = "done" /\ writes[r1] = 1
        /\ pc[r2] = "failed" /\ response[r2].kind = "raise"

\* C9: a run that ended in failure has written nothing to standard output,
\* and a run that has written and ended has status 0.
C9_NoOutputOnFailure ==
    \A r \in Runs :
        /\ pc[r] = "failed" => stdout[r] = <<>> /\ writes[r] = 0
        /\ (writes[r] > 0 \/ stdout[r] # <<>>) => pc[r] \in {"end", "done"}
        /\ (writes[r] > 0 /\ Ended(r)) => exitStatus[r] = Bound(0)

C9_Witness ==
    \E r1, r2 \in Runs :
        /\ pc[r1] = "failed" /\ stderr[r1] = "IndexError" /\ stdout[r1] = <<>>
        /\ pc[r2] = "failed" /\ stderr[r2] = "ConnectError" /\ stdout[r2] = <<>>

\* C10: a run with three or more positional arguments and the run with only
\* its first two send the backend the same request and, given the same
\* backend response, end in the same state with the same output and status.
C10_ExtraArgumentsIgnored ==
    \A r1, r2 \in Runs :
        (ArgCount(r1) >= 3 /\ argv[r2] = SubSeq(argv[r1], 1, 3)) =>
            /\ (pc[r1] = pc[r2]) =>
                   /\ text[r1] = text[r2]
                   /\ lang[r1] = lang[r2]
                   /\ calls[r1] = calls[r2]
            /\ (Ended(r1) /\ Ended(r2) /\ response[r1] = response[r2]) =>
                   /\ pc[r1] = pc[r2]
                   /\ calls[r1] = calls[r2] /\ Len(calls[r1]) = 1
                   /\ stdout[r1] = stdout[r2]
                   /\ stderr[r1] = stderr[r2]
                   /\ exitStatus[r1] = exitStatus[r2]

C10_Witness ==
    \E r1, r2 \in Runs :
        /\ argv[r1] = <<ScriptName, <<>>, <<"e", "s">>, <<>>>>
        /\ argv[r2] = <<ScriptName, <<>>, <<"e", "s">>>>
        /\ pc[r1] = "done" /\ pc[r2] = "done"
        /\ response[r1] = response[r2]
        /\ stdout[r1] = <<"h", "o", "l", "a", "\n">>

====
